---- MODULE Spec2Model ----
(***************************************************************************)
(* A model of smallnest/fasttimerwheel (src/timerwheel.go): a single-level *)
(* timing wheel.  Callers run ScheduleIn/ScheduleAt/Remove on their own    *)
(* goroutines; one ticker goroutine runs step().  Every access to shared   *)
(* memory that the code makes outside a lock is its own atomic step of the *)
(* model, and every critical section (Lock .. Unlock) is one atomic step;   *)
(* SpecLocks refines this, and takes each Lock as a step of its own.       *)
(* A call and its first access are one step: the call itself touches       *)
(* nothing shared.  Time is an integer count of clock units.               *)
(***************************************************************************)
EXTENDS Integers, FiniteSets, Sequences, TLC

\* ------------------------------------------------------------------ sizes
\* New(tickTime, slotCount, maxSlotSize, f): the wheel's parameters
TickTime == 2
SlotCount == 2
\* the maxSlotSize of a wheel built with a capacity limit (0: no limit)
Cap == 1

\* the clock runs from 0, for one revolution of the wheel
MaxTime == TickTime * SlotCount
\* the number of API calls (ScheduleIn, Remove) made in one behaviour
MaxCalls == 2

\* identities (data interface{}): Go ints, which may equal a slot index, and
\* pointers, which never equal an int
IntData == {0}
PtrData == {100}
Data == IntData \cup PtrData
\* the durations handed to ScheduleIn: into the past, one tick ahead, and the
\* whole span of the wheel
Durations == {-1, TickTime, TickTime * SlotCount}

Indexes == 0 .. (SlotCount - 1)
\* idSlotMap.Data[data] when the key is absent (ok = false)
NoIndex == -1

VARIABLES
    now,              \* time.Now()
    ticker,           \* "none" (before Start), "running", "stopped"
    tickC,            \* ticker.C holds a tick (a channel of capacity 1)
    CurrentStartTime, \* tw.CurrentStartTime
    CurrentIndex,     \* tw.CurrentIndex
    maxSlotSize,      \* tw.maxSlotSize
    slots,            \* tw.slots: index -> the SyncBoolMap it points to
    heap,             \* every SyncBoolMap allocated so far: its Data
    idSlotMap,        \* tw.idSlotMap.Data
    rot,              \* the ticker goroutine: its place in step() and locals
    call,             \* each caller goroutine: its place and locals
    budget,           \* API calls the callers will still make
    nsteps,           \* rotation steps begun so far
    locks,            \* the mutexes held: pairs <<goroutine, mutex>>
    hist              \* per identity: what has happened to it so far

vars == <<now, ticker, tickC, CurrentStartTime, CurrentIndex, maxSlotSize,
          slots, heap, idSlotMap, rot, call, budget, nsteps, locks, hist>>

\* ---------------------------------------------------------------- helpers
\* Go's integer division truncates toward zero (b > 0)
TruncDiv(a, b) == IF a >= 0 THEN a \div b ELSE -((-a) \div b)

\* Go's % has the sign of the dividend
GoRem(a, n) == a - n * TruncDiv(a, n)

\* an entry of a SyncBoolMap's Data: whether the key is present and, for the
\* record, the target time it was scheduled with and the number of the
\* rotation step (callN + steps + 1) it was scheduled for
NoItem == [in |-> FALSE, at |-> 0, due |-> 0]

\* make(map[interface{}]bool)
EmptyMap == [x \in Data |-> NoItem]

\* the keys of a map
Keys(m) == {x \in Data : m[x].in}

\* the SyncBoolMaps the wheel points to
Ring == {slots[i] : i \in Indexes}

\* an identity's history: acc, the inserts made by ScheduleAt; del, the times
\* it was handed to the callback; rem, Remove was called with it; cancel, a
\* Remove of it has returned that began after it was scheduled and ended
\* while no rotation step was running, and no ScheduleAt of it was called
\* since
NoHist == [acc |-> 0, del |-> 0, rem |-> FALSE, cancel |-> FALSE]

\* a caller's locals.  dur, callCI, callN and quiet: the duration given, and
\* at the call CurrentIndex, the steps begun, and whether no step was running;
\* cst0 and cst: the two reads of CurrentStartTime (lines 106, 110); clean:
\* Remove was called with no ScheduleAt of the identity under way
IdleCall == [pc |-> "idle", op |-> "none", dur |-> 0, at |-> 0, data |-> 0,
             cst0 |-> 0, cst |-> 0, steps |-> 0, ci |-> 0, index |-> 0,
             slot |-> 0, ret |-> "none", callCI |-> 0, callN |-> 0,
             quiet |-> FALSE, clean |-> FALSE]

IdleRot == [pc |-> "wait", start |-> 0, expiredIndex |-> 0, expiredSlot |-> 0]

\* ------------------------------------------------------------------- Init
\* New, lines 44-58: slotCount empty slots, an empty idSlotMap; not started.
\* max is maxSlotSize; n callers will make b calls between them
New(max, n, b) ==
    /\ now = 0
    /\ ticker = "none"
    /\ tickC = FALSE
    /\ CurrentStartTime = 0
    /\ CurrentIndex = 0
    /\ maxSlotSize = max
    /\ slots = [i \in Indexes |-> i + 1]
    /\ heap = [o \in 1 .. SlotCount |-> EmptyMap]
    /\ idSlotMap = [x \in Data |-> NoIndex]
    /\ rot = IdleRot
    /\ call = [p \in 1 .. n |-> IdleCall]
    /\ budget = b
    /\ nsteps = 0
    /\ locks = {}
    /\ hist = [x \in Data |-> NoHist]

\* a wheel with no capacity limit
Init == New(0, 1, MaxCalls)

\* a wheel with maxSlotSize = Cap
InitCap == New(Cap, 1, MaxCalls)

\* ------------------------------------------------------- code, as operators
\* a slip: the index wraps one slot early
NextIndexWrapsEarly(i) == IF i + 1 >= SlotCount - 1 THEN 0 ELSE i + 1

\* step, lines 82-85: the index after CurrentIndex
NextIndex(i) == IF i + 1 >= SlotCount THEN 0 ELSE i + 1

\* a slip: the comparison is with the start of the window before
BeforeLastWindow(at, cst) == at + TickTime < cst

\* ScheduleAt, line 106: at.Before(tw.CurrentStartTime)
Before(at, cst) == at < cst

\* a slip: the quotient is rounded up
StepsRoundedUp(at, cst) == TruncDiv(at - cst + TickTime - 1, TickTime)

\* ScheduleAt, lines 110-111: int((at - CurrentStartTime) / tickTime)
StepsOf(at, cst) == TruncDiv(at - cst, TickTime)

\* a slip: the last step of the span is let through
BeyondHighThreshold(steps) == steps > SlotCount

\* ScheduleAt, line 112: steps >= tw.slotCount
PastHighThreshold(steps) == steps >= SlotCount

\* ScheduleAt, line 116: (tw.CurrentIndex + steps) % tw.slotCount
IndexOf(ci, steps) == GoRem(ci + steps, SlotCount)

\* ScheduleAt, line 120: tw.maxSlotSize > 0 && len(slot.Data) > tw.maxSlotSize
SlotIsFull(len, max) == max > 0 /\ len > max

\* a slip: ok is not looked at, and a missing key reads as the zero value
LookupZeroValue(m, x) == IF m[x] = NoIndex THEN 0 ELSE m[x]

\* Remove, line 143: index, ok := tw.idSlotMap.Data[data] (NoIndex: not ok)
Lookup(m, x) == m[x]

\* Remove, line 151: the key that delete(slot.Data, ...) is given
RemoveKey(data, index) == index

\* delete(m, k): no effect when k is not a key of m
MapDelete(m, k) == [x \in Data |-> IF x = k THEN NoItem ELSE m[x]]

\* the caller goroutines of this wheel
Callers == DOMAIN call

\* a goroutine has panicked: the program is gone, and nothing runs any more
Crashed == \E p \in Callers : call[p].pc = "panicked"

\* a caller is inside ScheduleAt(.., x)
Scheduling(p, x) ==
    /\ call[p].op = "ScheduleAt"
    /\ call[p].pc \notin {"idle", "ret"}
    /\ call[p].data = x

\* the map the rotation step has detached and not yet handed to the callback
Detached(r) ==
    IF r.pc \in {"purge", "L94", "callback"} THEN {r.expiredSlot} ELSE {}

\* the maps the callers hold in a local that they will still use
Held(c) ==
    {c[p].slot :
       p \in {q \in DOMAIN c : c[q].pc \in {"L119", "L120", "R150", "R151"}}}

\* the garbage collector: a map that neither the wheel nor a goroutine points
\* to is gone, and its contents with it
Collect(h, sl, r, c) ==
    [o \in DOMAIN h |->
       IF o \in {sl[i] : i \in Indexes} \cup Detached(r) \cup Held(c)
       THEN h[o] ELSE EmptyMap]

\* a slip: the callback is started on a goroutine of its own, and the loop
\* of Start goes back to the receive while the callback runs
AtReceiveOrInCallback(r) == r.pc \in {"wait", "callback"}

\* Start, line 66: the one goroutine that runs step() is at the receive from
\* ticker.C, and not inside step()
AtReceive(r) == r.pc = "wait"

\* ------------------------------------------------------------ the lifecycle
\* Start, lines 61-70
Start ==
    /\ ~Crashed
    /\ ticker = "none"
    /\ ticker' = "running"
    /\ CurrentStartTime' = now
    /\ UNCHANGED <<locks, now, tickC, CurrentIndex, maxSlotSize, slots, heap,
                   idSlotMap, rot, call, budget, nsteps, hist>>

\* one clock unit passes; a running ticker sends a tick every TickTime units
\* after Start, and drops it when ticker.C already holds one
Tick ==
    /\ ~Crashed
    /\ ticker # "none"
    /\ now < MaxTime
    /\ now' = now + 1
    /\ tickC' = (tickC \/ (ticker = "running" /\ (now + 1) % TickTime = 0))
    /\ UNCHANGED <<locks, ticker, CurrentStartTime, CurrentIndex, maxSlotSize, slots,
                   heap, idSlotMap, rot, call, budget, nsteps, hist>>

\* --------------------------------------------------------------- step()
\* lines 66 and 79-86: take the tick, note start and expiredIndex, advance
StepAdvance ==
    /\ ~Crashed
    /\ AtReceive(rot)
    /\ tickC
    /\ tickC' = FALSE
    /\ rot' = [rot EXCEPT !.pc = "detach", !.start = CurrentStartTime,
                          !.expiredIndex = CurrentIndex]
    /\ CurrentIndex' = NextIndex(CurrentIndex)
    /\ CurrentStartTime' = now
    /\ nsteps' = nsteps + 1
    /\ UNCHANGED <<locks, now, ticker, maxSlotSize, slots, heap, idSlotMap, call,
                   budget, hist>>

\* lines 88-91: under the slot's lock, put a fresh map in its place
StepDetach ==
    /\ ~Crashed
    /\ rot.pc = "detach"
    /\ rot' = [rot EXCEPT !.pc = "purge",
                          !.expiredSlot = slots[rot.expiredIndex]]
    /\ heap' = Append(heap, EmptyMap)
    /\ slots' = [slots EXCEPT ![rot.expiredIndex] = Len(heap) + 1]
    /\ UNCHANGED <<locks, now, ticker, tickC, CurrentStartTime, CurrentIndex,
                   maxSlotSize, idSlotMap, call, budget, nsteps, hist>>

\* lines 93-97: under idSlotMap's lock, delete every key of the expired slot
StepPurge ==
    /\ ~Crashed
    /\ rot.pc = "purge"
    /\ rot' = [rot EXCEPT !.pc = "callback"]
    /\ idSlotMap' = [x \in Data |->
                       IF x \in Keys(heap[rot.expiredSlot]) THEN NoIndex
                       ELSE idSlotMap[x]]
    /\ UNCHANGED <<locks, now, ticker, tickC, CurrentStartTime, CurrentIndex,
                   maxSlotSize, slots, heap, call, budget, nsteps, hist>>

\* line 100: expiredDataFunc(start, expiredSlot), with start = rot.start and
\* the slot's Data = heap[rot.expiredSlot]; then step returns
StepCallback ==
    /\ ~Crashed
    /\ rot.pc = "callback"
    /\ hist' = [x \in Data |->
                  IF x \in Keys(heap[rot.expiredSlot])
                  THEN [hist[x] EXCEPT !.del = @ + 1]
                  ELSE hist[x]]
    /\ rot' = IdleRot
    /\ heap' = Collect(heap, slots, IdleRot, call)
    /\ UNCHANGED <<locks, now, ticker, tickC, CurrentStartTime, CurrentIndex,
                   maxSlotSize, slots, idSlotMap, call, budget, nsteps>>

\* ---------------------------------------------------- ScheduleIn / ScheduleAt
\* lines 135-137 and 105-108: ScheduleIn(dur, x) calls ScheduleAt(now + dur, x),
\* which reads CurrentStartTime and returns when at is before it
CallScheduleIn(p, dur, x) ==
    /\ ~Crashed
    /\ call[p].pc = "idle"
    /\ ticker # "none"
    /\ budget > 0
    /\ budget' = budget - 1
    /\ call' = [q \in Callers |->
                  IF q = p
                  THEN [IdleCall EXCEPT
                          !.pc = IF Before(now + dur, CurrentStartTime)
                                 THEN "ret" ELSE "L110",
                          !.ret = IF Before(now + dur, CurrentStartTime)
                                  THEN "ErrScheduleInPast" ELSE "none",
                          !.op = "ScheduleAt", !.dur = dur, !.at = now + dur,
                          !.data = x, !.cst0 = CurrentStartTime,
                          !.callCI = CurrentIndex, !.callN = nsteps,
                          !.quiet = (rot.pc = "wait")]
                  ELSE IF call[q].op = "Remove" /\ call[q].data = x
                  THEN [call[q] EXCEPT !.clean = FALSE]
                  ELSE call[q]]
    /\ hist' = [hist EXCEPT ![x].cancel = FALSE]
    /\ UNCHANGED <<locks, now, ticker, tickC, CurrentStartTime, CurrentIndex,
                   maxSlotSize, slots, heap, idSlotMap, rot, nsteps>>

\* lines 110-114
SchedSteps(p) ==
    /\ ~Crashed
    /\ call[p].pc = "L110"
    /\ LET steps == StepsOf(call[p].at, CurrentStartTime) IN
       call' = [call EXCEPT ![p] =
                  IF PastHighThreshold(steps)
                  THEN [@ EXCEPT !.pc = "ret", !.cst = CurrentStartTime,
                                 !.steps = steps,
                                 !.ret = "ErrSchedulePastHighThreshold"]
                  ELSE [@ EXCEPT !.pc = "L116", !.cst = CurrentStartTime,
                                 !.steps = steps]]
    /\ UNCHANGED <<locks, now, ticker, tickC, CurrentStartTime, CurrentIndex,
                   maxSlotSize, slots, heap, idSlotMap, rot, budget, nsteps,
                   hist>>

\* line 116
SchedIndex(p) ==
    /\ ~Crashed
    /\ call[p].pc = "L116"
    /\ call' = [call EXCEPT ![p] =
                  [@ EXCEPT !.pc = "L117", !.ci = CurrentIndex,
                            !.index = IndexOf(CurrentIndex, call[p].steps)]]
    /\ UNCHANGED <<locks, now, ticker, tickC, CurrentStartTime, CurrentIndex,
                   maxSlotSize, slots, heap, idSlotMap, rot, budget, nsteps,
                   hist>>

\* line 117: tw.slots[index] panics when index is out of range
SchedSlot(p) ==
    /\ ~Crashed
    /\ call[p].pc = "L117"
    /\ call' = [call EXCEPT ![p] =
                  IF call[p].index \in Indexes
                  THEN [@ EXCEPT !.pc = "L119", !.slot = slots[call[p].index]]
                  ELSE [@ EXCEPT !.pc = "panicked", !.ret = "panic"]]
    /\ UNCHANGED <<locks, now, ticker, tickC, CurrentStartTime, CurrentIndex,
                   maxSlotSize, slots, heap, idSlotMap, rot, budget, nsteps,
                   hist>>

\* lines 119-125: under the slot's lock, the capacity check and the insert
SchedInsert(p) ==
    /\ ~Crashed
    /\ call[p].pc = "L119"
    /\ LET c == call[p]
           full == SlotIsFull(Cardinality(Keys(heap[c.slot])), maxSlotSize)
           after == [call EXCEPT ![p] =
                       IF full
                       THEN [@ EXCEPT !.pc = "ret", !.ret = "ErrSlotIsFull"]
                       ELSE [@ EXCEPT !.pc = "L127"]]
           put == [heap EXCEPT ![c.slot][c.data] =
                     [in |-> TRUE, at |-> c.at, due |-> c.callN + c.steps + 1]]
       IN
       /\ call' = after
       /\ heap' = Collect(IF full THEN heap ELSE put, slots, rot, after)
       /\ hist' = IF full THEN hist
                  ELSE [hist EXCEPT ![c.data].acc = @ + 1]
    /\ UNCHANGED <<locks, now, ticker, tickC, CurrentStartTime, CurrentIndex,
                   maxSlotSize, slots, idSlotMap, rot, budget, nsteps>>

\* lines 127-131: under idSlotMap's lock, record the index; return nil
SchedRecord(p) ==
    /\ ~Crashed
    /\ call[p].pc = "L127"
    /\ idSlotMap' = [idSlotMap EXCEPT ![call[p].data] = call[p].index]
    /\ call' = [call EXCEPT ![p] = [@ EXCEPT !.pc = "ret", !.ret = "nil"]]
    /\ UNCHANGED <<locks, now, ticker, tickC, CurrentStartTime, CurrentIndex,
                   maxSlotSize, slots, heap, rot, budget, nsteps, hist>>

\* ------------------------------------------------------------------ Remove
\* lines 141-147: Remove(x) looks x up under idSlotMap's lock, and returns
\* when there is no entry
CallRemove(p, x) ==
    /\ ~Crashed
    /\ call[p].pc = "idle"
    /\ ticker # "none"
    /\ budget > 0
    /\ budget' = budget - 1
    /\ call' = [call EXCEPT ![p] =
                  [IdleCall EXCEPT
                     !.pc = IF Lookup(idSlotMap, x) = NoIndex THEN "ret"
                            ELSE "R149",
                     !.ret = IF Lookup(idSlotMap, x) = NoIndex THEN "absent"
                             ELSE "none",
                     !.op = "Remove", !.data = x,
                     !.index = Lookup(idSlotMap, x),
                     !.callCI = CurrentIndex, !.callN = nsteps,
                     !.quiet = (rot.pc = "wait"),
                     !.clean = (/\ hist[x].acc > 0
                                /\ \A q \in Callers : ~Scheduling(q, x))]]
    /\ hist' = [hist EXCEPT ![x].rem = TRUE]
    /\ UNCHANGED <<locks, now, ticker, tickC, CurrentStartTime, CurrentIndex,
                   maxSlotSize, slots, heap, idSlotMap, rot, nsteps>>

\* line 149
RemoveSlot(p) ==
    /\ ~Crashed
    /\ call[p].pc = "R149"
    /\ call' = [call EXCEPT ![p] =
                  [@ EXCEPT !.pc = "R150", !.slot = slots[call[p].index]]]
    /\ UNCHANGED <<locks, now, ticker, tickC, CurrentStartTime, CurrentIndex,
                   maxSlotSize, slots, heap, idSlotMap, rot, budget, nsteps,
                   hist>>

\* lines 150-152: under the slot's lock, delete(slot.Data, index)
RemoveDelete(p) ==
    /\ ~Crashed
    /\ call[p].pc = "R150"
    /\ LET after == [call EXCEPT ![p] =
                       [@ EXCEPT !.pc = "ret", !.ret = "removed"]]
       IN
       /\ call' = after
       /\ heap' = Collect([heap EXCEPT ![call[p].slot] =
                             MapDelete(@, RemoveKey(call[p].data,
                                                    call[p].index))],
                          slots, rot, after)
    /\ UNCHANGED <<locks, now, ticker, tickC, CurrentStartTime, CurrentIndex,
                   maxSlotSize, slots, idSlotMap, rot, budget, nsteps, hist>>

\* a call returns to its caller
Return(p) ==
    /\ ~Crashed
    /\ call[p].pc = "ret"
    /\ call' = [call EXCEPT ![p] = IdleCall]
    /\ hist' = IF call[p].op = "Remove"
               THEN [hist EXCEPT ![call[p].data].cancel =
                                    call[p].clean /\ rot.pc = "wait"]
               ELSE hist
    /\ UNCHANGED <<locks, now, ticker, tickC, CurrentStartTime, CurrentIndex,
                   maxSlotSize, slots, heap, idSlotMap, rot, budget, nsteps>>

\* ------------------------------------------------------------ specification
Next ==
    \/ Start
    \/ Tick
    \/ StepAdvance
    \/ StepDetach
    \/ StepPurge
    \/ StepCallback
    \/ \E p \in Callers, dur \in Durations, x \in Data :
          CallScheduleIn(p, dur, x)
    \/ \E p \in Callers : SchedSteps(p)
    \/ \E p \in Callers : SchedIndex(p)
    \/ \E p \in Callers : SchedSlot(p)
    \/ \E p \in Callers : SchedInsert(p)
    \/ \E p \in Callers : SchedRecord(p)
    \/ \E p \in Callers, x \in Data : CallRemove(p, x)
    \/ \E p \in Callers : RemoveSlot(p)
    \/ \E p \in Callers : RemoveDelete(p)
    \/ \E p \in Callers : Return(p)

Spec == Init /\ [][Next]_vars

SpecCap == InitCap /\ [][Next]_vars

\* a wheel whose callers make one call more
InitMore == New(0, 1, MaxCalls + 1)

SpecMore == InitMore /\ [][Next]_vars

\* Stop, lines 73-75: tw.ticker.Stop().  The ticker sends no tick from now
\* on; a tick it has sent already (tickC) is not taken back, and the
\* goroutine of Start is neither told nor waited for.  (Stop before Start
\* dereferences a nil ticker, and is left out.)
Stop ==
    /\ ~Crashed
    /\ ticker = "running"
    /\ ticker' = "stopped"
    /\ UNCHANGED <<locks, now, tickC, CurrentStartTime, CurrentIndex, maxSlotSize,
                   slots, heap, idSlotMap, rot, call, budget, nsteps, hist>>

\* a wheel that its owner may stop
NextStop ==
    \/ Next
    \/ Stop

SpecStop == Init /\ [][NextStop]_vars

TypeOK ==
    /\ now \in 0 .. MaxTime
    /\ CurrentIndex \in Indexes
    /\ \A i \in Indexes : slots[i] \in 1 .. Len(heap)

\* ---------------------------------------------------------------- mutexes
\* the mutex of tw.idSlotMap; the mutex of a SyncBoolMap is named by the
\* map's place in heap (1, 2, ...)
IdLock == 0

\* the goroutine of Start, as the holder of a mutex; callers are 1, 2, ...
Rotation == 0

\* nobody holds mutex l
Free(ls, l) == \A pr \in ls : pr[2] # l

\* Lock(): returns once the mutex is free (sync.RWMutex is not reentrant)
Lock(ls, h, l) == ls \cup {<<h, l>>}

\* a slip: a path that returns without Unlock
UnlockForgotten(ls, h, l) == ls

\* Unlock()
Unlock(ls, h, l) == ls \ {<<h, l>>}

\* step, lines 88-89: expiredSlot := tw.slots[expiredIndex]; Lock
StepLockSlot ==
    /\ ~Crashed
    /\ rot.pc = "detach"
    /\ Free(locks, slots[rot.expiredIndex])
    /\ locks' = Lock(locks, Rotation, slots[rot.expiredIndex])
    /\ rot' = [rot EXCEPT !.pc = "L90",
                          !.expiredSlot = slots[rot.expiredIndex]]
    /\ UNCHANGED <<now, ticker, tickC, CurrentStartTime, CurrentIndex,
                   maxSlotSize, slots, heap, idSlotMap, call, budget, nsteps,
                   hist>>

\* step, lines 90-91: put a fresh map in the slot; Unlock
StepSwap ==
    /\ ~Crashed
    /\ rot.pc = "L90"
    /\ rot' = [rot EXCEPT !.pc = "purge"]
    /\ heap' = Append(heap, EmptyMap)
    /\ slots' = [slots EXCEPT ![rot.expiredIndex] = Len(heap) + 1]
    /\ locks' = Unlock(locks, Rotation, rot.expiredSlot)
    /\ UNCHANGED <<now, ticker, tickC, CurrentStartTime, CurrentIndex,
                   maxSlotSize, idSlotMap, call, budget, nsteps, hist>>

\* step, line 93: tw.idSlotMap.Lock()
StepLockId ==
    /\ ~Crashed
    /\ rot.pc = "purge"
    /\ Free(locks, IdLock)
    /\ locks' = Lock(locks, Rotation, IdLock)
    /\ rot' = [rot EXCEPT !.pc = "L94"]
    /\ UNCHANGED <<now, ticker, tickC, CurrentStartTime, CurrentIndex,
                   maxSlotSize, slots, heap, idSlotMap, call, budget, nsteps,
                   hist>>

\* step, lines 94-97: delete every key of the expired slot; Unlock
StepPurgeLocked ==
    /\ ~Crashed
    /\ rot.pc = "L94"
    /\ rot' = [rot EXCEPT !.pc = "callback"]
    /\ idSlotMap' = [x \in Data |->
                       IF x \in Keys(heap[rot.expiredSlot]) THEN NoIndex
                       ELSE idSlotMap[x]]
    /\ locks' = Unlock(locks, Rotation, IdLock)
    /\ UNCHANGED <<now, ticker, tickC, CurrentStartTime, CurrentIndex,
                   maxSlotSize, slots, heap, call, budget, nsteps, hist>>

\* ScheduleAt, line 119: slot.Lock()
SchedLockSlot(p) ==
    /\ ~Crashed
    /\ call[p].pc = "L119"
    /\ Free(locks, call[p].slot)
    /\ locks' = Lock(locks, p, call[p].slot)
    /\ call' = [call EXCEPT ![p] = [@ EXCEPT !.pc = "L120"]]
    /\ UNCHANGED <<now, ticker, tickC, CurrentStartTime, CurrentIndex,
                   maxSlotSize, slots, heap, idSlotMap, rot, budget, nsteps,
                   hist>>

\* ScheduleAt, lines 120-125: the capacity check and the insert; Unlock on
\* either path
SchedInsertLocked(p) ==
    /\ ~Crashed
    /\ call[p].pc = "L120"
    /\ LET c == call[p]
           full == SlotIsFull(Cardinality(Keys(heap[c.slot])), maxSlotSize)
           after == [call EXCEPT ![p] =
                       IF full
                       THEN [@ EXCEPT !.pc = "ret", !.ret = "ErrSlotIsFull"]
                       ELSE [@ EXCEPT !.pc = "L127"]]
           put == [heap EXCEPT ![c.slot][c.data] =
                     [in |-> TRUE, at |-> c.at, due |-> c.callN + c.steps + 1]]
       IN
       /\ call' = after
       /\ heap' = Collect(IF full THEN heap ELSE put, slots, rot, after)
       /\ hist' = IF full THEN hist
                  ELSE [hist EXCEPT ![c.data].acc = @ + 1]
       /\ locks' = Unlock(locks, p, c.slot)
    /\ UNCHANGED <<now, ticker, tickC, CurrentStartTime, CurrentIndex,
                   maxSlotSize, slots, idSlotMap, rot, budget, nsteps>>

\* ScheduleAt, line 127: tw.idSlotMap.Lock()
SchedLockId(p) ==
    /\ ~Crashed
    /\ call[p].pc = "L127"
    /\ Free(locks, IdLock)
    /\ locks' = Lock(locks, p, IdLock)
    /\ call' = [call EXCEPT ![p] = [@ EXCEPT !.pc = "L128"]]
    /\ UNCHANGED <<now, ticker, tickC, CurrentStartTime, CurrentIndex,
                   maxSlotSize, slots, heap, idSlotMap, rot, budget, nsteps,
                   hist>>

\* ScheduleAt, lines 128-131: record the index; Unlock; return nil
SchedRecordLocked(p) ==
    /\ ~Crashed
    /\ call[p].pc = "L128"
    /\ idSlotMap' = [idSlotMap EXCEPT ![call[p].data] = call[p].index]
    /\ call' = [call EXCEPT ![p] = [@ EXCEPT !.pc = "ret", !.ret = "nil"]]
    /\ locks' = Unlock(locks, p, IdLock)
    /\ UNCHANGED <<now, ticker, tickC, CurrentStartTime, CurrentIndex,
                   maxSlotSize, slots, heap, rot, budget, nsteps, hist>>

\* Remove, line 141: Remove(x) is called
CallRemoveBegin(p, x) ==
    /\ ~Crashed
    /\ call[p].pc = "idle"
    /\ ticker # "none"
    /\ budget > 0
    /\ budget' = budget - 1
    /\ call' = [call EXCEPT ![p] =
                  [IdleCall EXCEPT
                     !.pc = "R142", !.op = "Remove", !.data = x,
                     !.callCI = CurrentIndex, !.callN = nsteps,
                     !.quiet = (rot.pc = "wait"),
                     !.clean = (/\ hist[x].acc > 0
                                /\ \A q \in Callers : ~Scheduling(q, x))]]
    /\ hist' = [hist EXCEPT ![x].rem = TRUE]
    /\ UNCHANGED <<now, ticker, tickC, CurrentStartTime, CurrentIndex,
                   maxSlotSize, slots, heap, idSlotMap, rot, nsteps, locks>>

\* Remove, line 142: tw.idSlotMap.Lock()
RemoveLockId(p) ==
    /\ ~Crashed
    /\ call[p].pc = "R142"
    /\ Free(locks, IdLock)
    /\ locks' = Lock(locks, p, IdLock)
    /\ call' = [call EXCEPT ![p] = [@ EXCEPT !.pc = "R143"]]
    /\ UNCHANGED <<now, ticker, tickC, CurrentStartTime, CurrentIndex,
                   maxSlotSize, slots, heap, idSlotMap, rot, budget, nsteps,
                   hist>>

\* Remove, lines 143-147: the lookup; Unlock; return when there is no entry
RemoveLookup(p) ==
    /\ ~Crashed
    /\ call[p].pc = "R143"
    /\ LET index == Lookup(idSlotMap, call[p].data) IN
       call' = [call EXCEPT ![p] =
                  IF index = NoIndex
                  THEN [@ EXCEPT !.pc = "ret", !.ret = "absent",
                                 !.index = index]
                  ELSE [@ EXCEPT !.pc = "R149", !.index = index]]
    /\ locks' = Unlock(locks, p, IdLock)
    /\ UNCHANGED <<now, ticker, tickC, CurrentStartTime, CurrentIndex,
                   maxSlotSize, slots, heap, idSlotMap, rot, budget, nsteps,
                   hist>>

\* Remove, line 150: slot.Lock()
RemoveLockSlot(p) ==
    /\ ~Crashed
    /\ call[p].pc = "R150"
    /\ Free(locks, call[p].slot)
    /\ locks' = Lock(locks, p, call[p].slot)
    /\ call' = [call EXCEPT ![p] = [@ EXCEPT !.pc = "R151"]]
    /\ UNCHANGED <<now, ticker, tickC, CurrentStartTime, CurrentIndex,
                   maxSlotSize, slots, heap, idSlotMap, rot, budget, nsteps,
                   hist>>

\* Remove, lines 151-152: delete(slot.Data, index); Unlock
RemoveDeleteLocked(p) ==
    /\ ~Crashed
    /\ call[p].pc = "R151"
    /\ LET after == [call EXCEPT ![p] =
                       [@ EXCEPT !.pc = "ret", !.ret = "removed"]]
       IN
       /\ call' = after
       /\ heap' = Collect([heap EXCEPT ![call[p].slot] =
                             MapDelete(@, RemoveKey(call[p].data,
                                                    call[p].index))],
                          slots, rot, after)
    /\ locks' = Unlock(locks, p, call[p].slot)
    /\ UNCHANGED <<now, ticker, tickC, CurrentStartTime, CurrentIndex,
                   maxSlotSize, slots, idSlotMap, rot, budget, nsteps, hist>>

\* the inputs of the calls in SpecLocks: targets the wheel accepts, identities
\* of one kind (which mutex a call takes does not depend on more)
LockDurations == {-1, TickTime}
LockData == PtrData

NextLocks ==
    \/ Start
    \/ Tick
    \/ StepAdvance
    \/ StepLockSlot
    \/ StepSwap
    \/ StepLockId
    \/ StepPurgeLocked
    \/ StepCallback
    \/ \E p \in Callers, dur \in LockDurations, x \in LockData :
          CallScheduleIn(p, dur, x)
    \/ \E p \in Callers : SchedSteps(p)
    \/ \E p \in Callers : SchedIndex(p)
    \/ \E p \in Callers : SchedSlot(p)
    \/ \E p \in Callers : SchedLockSlot(p)
    \/ \E p \in Callers : SchedInsertLocked(p)
    \/ \E p \in Callers : SchedLockId(p)
    \/ \E p \in Callers : SchedRecordLocked(p)
    \/ \E p \in Callers, x \in LockData : CallRemoveBegin(p, x)
    \/ \E p \in Callers : RemoveLockId(p)
    \/ \E p \in Callers : RemoveLookup(p)
    \/ \E p \in Callers : RemoveSlot(p)
    \/ \E p \in Callers : RemoveLockSlot(p)
    \/ \E p \in Callers : RemoveDeleteLocked(p)
    \/ \E p \in Callers : Return(p)

\* a caller and the rotation process, every Lock a step of its own
InitLocks == New(0, 1, MaxCalls)

SpecLocks == InitLocks /\ [][NextLocks]_vars

\* the next step of the rotation goroutine, and of caller p inside a call
RotationStep ==
    StepLockSlot \/ StepSwap \/ StepLockId \/ StepPurgeLocked \/ StepCallback

CallerStep(p) ==
    \/ SchedSteps(p) \/ SchedIndex(p) \/ SchedSlot(p) \/ SchedLockSlot(p)
    \/ SchedInsertLocked(p) \/ SchedLockId(p) \/ SchedRecordLocked(p)
    \/ RemoveLockId(p) \/ RemoveLookup(p) \/ RemoveSlot(p)
    \/ RemoveLockSlot(p) \/ RemoveDeleteLocked(p) \/ Return(p)

\* goroutine h can take its next step
CanStep(h) == IF h = Rotation THEN ENABLED RotationStep
              ELSE ENABLED CallerStep(h)

\* the mutexes goroutine h holds
Holds(h) == {pr[2] : pr \in {q \in locks : q[1] = h}}

\* the mutex goroutine h is at a Lock() of, if any
Wants(h) ==
    IF h = Rotation
    THEN (IF rot.pc = "detach" THEN {slots[rot.expiredIndex]}
          ELSE IF rot.pc = "purge" THEN {IdLock} ELSE {})
    ELSE (IF call[h].pc \in {"L119", "R150"} THEN {call[h].slot}
          ELSE IF call[h].pc \in {"L127", "R142"} THEN {IdLock} ELSE {})

\* goroutine h is inside step() or inside a call
Busy(h) == IF h = Rotation THEN rot.pc # "wait"
           ELSE call[h].pc \notin {"idle", "panicked"}

\* ------------------------------------------------------------ the claims
\* the rotation step is about to hand rot.start and the detached map to the
\* callback
AtCallback == rot.pc = "callback"

\* the identities the callback is handed
Delivered == Keys(heap[rot.expiredSlot])

\* the maps whose contents a callback will still be handed: those of the
\* wheel and the detached one
Pending == Ring \cup Detached(rot)

\* the maps among them that hold x
Holding(x) == {o \in Pending : x \in Keys(heap[o])}

\* no call and no rotation step is under way
Quiescent == rot.pc = "wait" /\ \A p \in Callers : call[p].pc = "idle"

\* x was scheduled, has not been handed to the callback and no Remove(x) was
\* called
Live(x) == hist[x].acc > 0 /\ hist[x].del = 0 /\ ~hist[x].rem

\* C1 (as claimed): an identity that ScheduleAt accepted once and that was
\* never given to Remove is handed to the callback exactly once: at any
\* moment it has either been handed over once and is in no bucket any more,
\* or it has not and is in exactly one bucket that a rotation step will
\* still retire.
C1_DeliveredExactlyOnce ==
    \A x \in Data :
        (hist[x].acc = 1 /\ ~hist[x].rem)
            => hist[x].del + Cardinality(Holding(x)) = 1

\* C2 (as claimed): an identity whose Remove returned before the rotation
\* step began (and that was not scheduled again) is not among the identities
\* the callback is handed.
C2_RemovedNotDelivered ==
    AtCallback => \A x \in Delivered : ~hist[x].cancel

\* C3 (as claimed): when no call and no step is under way, every live
\* identity is in exactly one bucket of the ring, and idSlotMap maps it to
\* that bucket's index.
C3_OneBucketOneEntry ==
    Quiescent =>
        \A x \in Data :
            Live(x) =>
                /\ Cardinality({i \in Indexes : x \in Keys(heap[slots[i]])}) = 1
                /\ idSlotMap[x] \in Indexes
                /\ x \in Keys(heap[slots[idSlotMap[x]]])

\* C4 (as claimed): under every interleaving of calls and rotation steps, an
\* identity that was accepted and never given to Remove is not lost (while it
\* has not been handed to the callback, a bucket still to be retired holds
\* it) and is not handed over more often than it was accepted.
C4_NoLostNoDuplicate ==
    \A x \in Data :
        /\ Live(x) => Holding(x) # {}
        /\ hist[x].del <= hist[x].acc

\* C5 (as claimed): from the moment the rotation step has detached a map
\* until it hands it to the callback, the map's contents do not change.
C5_DetachedFrozen ==
    [][(rot.pc \in {"purge", "callback"} /\ rot'.pc \in {"purge", "callback"})
          => heap'[rot.expiredSlot] = heap[rot.expiredSlot]]_vars

\* C6 (as claimed): with maxSlotSize = k > 0 no bucket holds more than k
\* identities.
C6_NeverAboveCapacity ==
    maxSlotSize > 0 =>
        \A i \in Indexes : Cardinality(Keys(heap[slots[i]])) <= maxSlotSize

C7Covers(c) ==
    /\ c.op = "ScheduleAt"
    /\ c.quiet
    /\ 0 <= c.at - c.cst0
    /\ c.at - c.cst0 < TickTime * SlotCount

\* the bucket C7, as amended, names
C7Bucket(c) == (c.callCI + ((c.at - c.cst0) \div TickTime)) % SlotCount

C8_NotBeforeItsWindow ==
    AtCallback =>
        \A x \in Delivered :
            heap[rot.expiredSlot][x].at - rot.start <= TickTime

\* C9 (as claimed): an identity accepted with offset s is handed to the
\* callback by the (s+1)-th rotation step that follows the call.
C9_DeliveredByItsStep ==
    AtCallback =>
        \A x \in Delivered : heap[rot.expiredSlot][x].due = nsteps

\* C10: ScheduleAt(t, x) with t before CurrentStartTime returns
\* ErrScheduleInPast, and neither the call nor its return changes a bucket,
\* the ring or idSlotMap.
C10_PastRejected ==
    [][\A p \in Callers :
          LET c == call[p]
              d == call'[p]
          IN
          /\ (c.pc = "idle" /\ d.op = "ScheduleAt"
                /\ d.at < CurrentStartTime) =>
                 /\ d.pc = "ret"
                 /\ d.ret = "ErrScheduleInPast"
                 /\ UNCHANGED <<slots, heap, idSlotMap>>
          /\ (c.op = "ScheduleAt" /\ c.at < c.cst0 /\ d # c) =>
                 /\ d.pc = "idle"
                 /\ UNCHANGED <<slots, heap, idSlotMap>>]_vars

\* C10's case: a call with a target before CurrentStartTime has returned
\* ErrScheduleInPast on a wheel that holds an identity
C10_Witness ==
    \E p \in Callers :
        /\ call[p].op = "ScheduleAt"
        /\ call[p].pc = "ret"
        /\ call[p].at < CurrentStartTime
        /\ call[p].ret = "ErrScheduleInPast"
        /\ \E i \in Indexes : Keys(heap[slots[i]]) # {}
        /\ \E x \in Data : idSlotMap[x] # NoIndex

\* C11: the high threshold.  With CurrentStartTime the value ScheduleAt reads
\* at line 110: when floor((t - CurrentStartTime) / tickTime) >= slotCount the
\* call returns ErrSchedulePastHighThreshold, and neither that step nor the
\* return changes a bucket, the ring or idSlotMap; for a smaller non-negative
\* offset the call does not return this error; and the error comes from
\* nowhere else.
C11_HighThreshold ==
    [][\A p \in Callers :
          LET c == call[p]
              d == call'[p]
              off == c.at - CurrentStartTime
          IN
          /\ (c.pc = "L110" /\ d # c /\ off \div TickTime >= SlotCount) =>
                 /\ d.pc = "ret"
                 /\ d.ret = "ErrSchedulePastHighThreshold"
                 /\ UNCHANGED <<slots, heap, idSlotMap>>
          /\ (c.pc = "L110" /\ d # c /\ 0 <= off
                /\ off \div TickTime < SlotCount) =>
                 /\ d.pc = "L116"
                 /\ d.ret # "ErrSchedulePastHighThreshold"
          /\ (c.ret = "ErrSchedulePastHighThreshold" /\ d # c) =>
                 /\ d.pc = "idle"
                 /\ UNCHANGED <<slots, heap, idSlotMap>>
          /\ (d.ret = "ErrSchedulePastHighThreshold" /\ d # c) =>
                 c.pc = "L110"]_vars

\* C11's case: on a wheel that holds an identity, a call whose offset is
\* exactly slotCount steps has returned ErrSchedulePastHighThreshold, and its
\* identity is in no bucket and has no entry in idSlotMap
C11_Witness ==
    \E p \in Callers :
        LET c == call[p] IN
        /\ c.op = "ScheduleAt"
        /\ c.pc = "ret"
        /\ c.ret = "ErrSchedulePastHighThreshold"
        /\ c.steps = SlotCount
        /\ idSlotMap[c.data] = NoIndex
        /\ \A i \in Indexes : c.data \notin Keys(heap[slots[i]])
        /\ \E i \in Indexes : Keys(heap[slots[i]]) # {}

C14_NothingAfterStop ==
    [][ticker = "stopped" =>
          /\ CurrentIndex' = CurrentIndex
          /\ slots' = slots
          /\ ~(rot.pc = "callback" /\ rot'.pc = "wait")
          /\ \A x \in Data : hist'[x].del = hist[x].del]_vars

\* C15 (as claimed): ScheduleAt on a started wheel never panics: under every
\* interleaving with rotation steps, a call that has passed both range checks
\* has computed a bucket index in 0..slotCount-1.
C15_NeverPanics ==
    \A p \in Callers :
        /\ call[p].pc # "panicked"
        /\ (call[p].op = "ScheduleAt"
              /\ call[p].pc \in {"L117", "L119", "L127"})
               => call[p].index \in Indexes

\* C16: no goroutine (a caller in ScheduleAt or Remove, or the rotation
\* step) ever holds two mutexes, be it a bucket's and idSlotMap's or those of
\* two buckets, and none is at a Lock() while it holds one; a mutex has one
\* holder at most.  So nothing waits for ever: while the program has not
\* panicked, a goroutine inside a call or a step can take its next step, or
\* waits for a mutex whose holder can take its next step.
C16_LockDiscipline ==
    /\ \A h \in Callers \cup {Rotation} :
          /\ Cardinality(Holds(h)) <= 1
          /\ Holds(h) # {} => Wants(h) = {}
          /\ (Busy(h) /\ ~Crashed) =>
                \/ CanStep(h)
                \/ \E pr \in locks : pr[2] \in Wants(h) /\ CanStep(pr[1])
    /\ \A pr \in locks, qr \in locks : pr[2] = qr[2] => pr = qr

\* C16's case: the rotation step holds the mutex of the bucket it is
\* detaching while a caller is at the Lock() of that same bucket and has
\* to wait
C16_Witness ==
    \E p \in Callers :
        /\ rot.pc = "L90"
        /\ call[p].pc \in {"L119", "R150"}
        /\ call[p].slot = rot.expiredSlot
        /\ <<Rotation, rot.expiredSlot>> \in locks
        /\ ~ENABLED CallerStep(p)

\* C17: rotation steps are strictly sequential.  A step begins (takes a
\* tick, advances CurrentIndex) only when the goroutine of Start is back at
\* its receive, the previous step and its callback having returned; while a
\* step is under way, up to and including its callback, no other step begins
\* and no bucket other than that step's is detached.
C17_StepsSequential ==
    [][/\ nsteps' # nsteps => (rot.pc = "wait" /\ rot'.pc = "detach")
       /\ rot.pc # "wait" =>
              /\ nsteps' = nsteps
              /\ CurrentIndex' = CurrentIndex
              /\ CurrentStartTime' = CurrentStartTime
              /\ rot'.start = rot.start \/ rot'.pc = "wait"
              /\ rot'.expiredIndex = rot.expiredIndex \/ rot'.pc = "wait"
              /\ slots' # slots => rot.pc = "detach"
       /\ rot.pc = "callback" =>
              /\ slots' = slots
              /\ rot'.pc \in {"callback", "wait"}]_vars

\* C17's case: the next tick has come while the first step is at its
\* callback; the tick waits in ticker.C
C17_Witness ==
    /\ rot.pc = "callback"
    /\ nsteps = 1
    /\ tickC
    /\ now = 2 * TickTime

\* C18 (as claimed): when the rotation step invokes the callback the bucket
\* has been detached from the ring, and idSlotMap holds no entry for any
\* identity in it.
C18_PurgedAtCallback ==
    AtCallback =>
        /\ rot.expiredSlot \notin Ring
        /\ \A x \in Delivered : idSlotMap[x] = NoIndex

\* C19 (as claimed): the values a ScheduleAt call works with are a
\* consistent pair: the CurrentStartTime it subtracts (line 110) is the one
\* it compared with (line 106), and the CurrentIndex it adds the offset to
\* (line 116) is the one the wheel had together with that CurrentStartTime.
C19_ConsistentPair ==
    \A p \in Callers :
        LET c == call[p] IN
        c.op = "ScheduleAt" =>
            /\ c.pc \in {"L116", "L117", "L119", "L127"} => c.cst = c.cst0
            /\ c.pc \in {"L117", "L119", "L127"} => c.ci = c.callCI

\* C20 (as claimed): no step of Remove(x) removes an identity other than x
\* from a bucket: for every y different from x, y is in the same buckets of
\* the ring after the step as before.
C20_RemoveOnlyItsOwn ==
    [][\A p \in Callers :
          (call[p].op = "Remove" /\ call'[p] # call[p]) =>
              \A y \in Data \ {call[p].data}, i \in Indexes :
                  (y \in Keys(heap[slots[i]])) = (y \in Keys(heap'[slots'[i]]))
      ]_vars

====
